---- MODULE Spec2Model ----
(***************************************************************************)
(* Flood-adaptation agent-based model: households (agents.py), government  *)
(* (agents.py), the scheduler AdaptationModel (model.py) and the decision  *)
(* functions (functions.py).                                               *)
(*                                                                         *)
(* Units.  Perceptions, signals and the weights' arguments are fixed-point *)
(* thousandths (1.0 is PerMille); the weights a, b, c, d are hundredths.   *)
(* Depths are millimetres, money is USD.  Real division is floor division  *)
(* on these integers.                                                      *)
(***************************************************************************)
EXTENDS Integers, Sequences, FiniteSets, TLC

\* 1.0 in thousandths.
PerMille == 10 ^ 3

\* Python's None, and a present value, for the optional attributes.
None == << >>
Some(v) == << v >>

Abs(x) == IF x < 0 THEN -x ELSE x

(***************************************************************************)
(* Bounds of the model.                                                    *)
(***************************************************************************)
\* Ticks of AdaptationModel.step explored.
MaxSteps == 3
\* The step index of the flood shock.  model.py:91 fixes it to 70; the
\* model scales the index down, keeping ticks before, at and after it.
flood_occurs == 1
\* Direct calls of the agents' methods explored.
MaxCalls == 4
\* Direct calls of the perception update explored.
MaxUpdates == 2

(***************************************************************************)
(* Program constants.                                                      *)
(***************************************************************************)
cost_measure == 35000
savings_threshold == 5000
tau == 200

\* model.py:79 savings_levels, indexed by income category.
savings_levels ==
  [low |-> <<0, 20000>>, middle |-> <<20000, 70000>>, high |-> <<70000, 250000>>]

\* agents.py:55 flood_map_choices, in the order of the loop.
flood_map_choices == <<"harvey", "100yr", "500yr">>

(***************************************************************************)
(* Inputs: the population, the rasters, the configuration.                 *)
(***************************************************************************)
HouseholdIds == {0, 1}

\* Raster cells a household can be located on.
Locations == {1, 2, 3}

\* band[map][cell]: the depth raster of each flood map, in mm.  Cell 1 lies
\* above the flood level on two maps (negative reading).
band_of ==
  [m \in {"harvey", "100yr", "500yr"} |->
     IF m = "harvey" THEN <<-300, 500, 6500>>
     ELSE IF m = "100yr" THEN <<-100, 1500, 2000>>
     ELSE <<0, 3000, 7500>>]

\* math.log on the depths of the rasters: 10^4 * ln(d / 1000), rounded.
LnTable ==
  (25 :> -36889) @@ (500 :> -6931) @@ (1000 :> 0) @@ (1024 :> 237) @@
  (1025 :> 247) @@ (1500 :> 4055) @@ (2000 :> 6931) @@ (2325 :> 8437) @@
  (2800 :> 10296) @@ (3000 :> 10986) @@ (3300 :> 11939) @@ (4000 :> 13863) @@
  (4300 :> 14586) @@ (5000 :> 16094) @@ (5300 :> 16677) @@ (5999 :> 17916) @@
  (6300 :> 18405) @@ (7299 :> 19877) @@ (7300 :> 19879) @@ (7494 :> 20141) @@
  (7800 :> 20541) @@ (8299 :> 21161)

math_log(d) == LnTable[d]

\* Configurations explored: flood_map_choice, subsidie_level,
\* information_bias (thousandths).
FloodMapChoices == {"harvey", "500yr"}
SubsidyLevels == {0, 30000}
InformationBias == {0, 300}

(***************************************************************************)
(* functions.py                                                            *)
(***************************************************************************)
\* get_flood_depth: the cell comes from the map's index, the value from the
\* band handed in.
get_flood_depth(corresponding_map, location, band) == band_of[band][location]

calculate_basic_flood_damage(flood_depth) ==
  IF flood_depth >= 6000 THEN 100000
  ELSE IF flood_depth < 25 THEN 0
  ELSE (1746 * math_log(flood_depth)) \div 1000 + 64830

calculate_adapted_flood_damage(flood_depth) ==
  IF flood_depth >= 7000 THEN 100000
  ELSE IF flood_depth < 1025 THEN 0
  ELSE (1746 * math_log(flood_depth + 1300)) \div 1000 + 64830

\* The weights and the experience signal chosen by the flood flag.
rp_experience_weights(flood_flag) ==
  IF flood_flag THEN [a |-> 10, b |-> 100, I_experience |-> PerMille]
  ELSE [a |-> 100, b |-> 4, I_experience |-> 0]

\* Mutant: a difference of exactly tau still counts as strong agreement.
rp_trust_weight_inclusive(RPt_1, signal) ==
  IF Abs(RPt_1 - signal) <= tau THEN 100
  ELSE IF Abs(RPt_1 - signal) > PerMille - tau THEN 0
  ELSE 50

\* Equations (8) to (10): the trust weight of a signal.
rp_trust_weight(RPt_1, signal) ==
  IF Abs(RPt_1 - signal) < tau THEN 100
  ELSE IF Abs(RPt_1 - signal) > PerMille - tau THEN 0
  ELSE 50

\* Mutant: the sum of the trust weights is left out of the normalisation.
rp_blend_partly_normalised(w, c, d, RPt_1, I_social, I_media) ==
  (w.a * RPt_1 + w.b * w.I_experience + c * I_social + d * I_media)
    \div (w.a + w.b)

\* Equation (6): the weighted average of the four terms.
rp_blend(w, c, d, RPt_1, I_social, I_media) ==
  (w.a * RPt_1 + w.b * w.I_experience + c * I_social + d * I_media)
    \div (w.a + w.b + c + d)

risk_perception_bayesian_PT(RPt_1, I_social, I_media, flood_flag) ==
  rp_blend(rp_experience_weights(flood_flag),
           rp_trust_weight(RPt_1, I_social),
           rp_trust_weight(RPt_1, I_media),
           RPt_1, I_social, I_media)

\* The call on an optional prior.  The trust weights are computed from
\* abs(RPt_1 - I_social) (functions.py:301) before the test for None
\* (functions.py:315): on None the subtraction raises.
risk_perception_bayesian_PT_call(RPt_1, I_social, I_media, flood_flag) ==
  IF RPt_1 = None
    THEN [raised |-> "TypeError", RPt |-> None]
    ELSE [raised |-> "",
          RPt |-> Some(risk_perception_bayesian_PT(RPt_1[1], I_social, I_media,
                                                   flood_flag))]

\* Python's truth value of an int, as in "if flood_occurs:".
Truthy(n) == n # 0

(***************************************************************************)
(* State.                                                                  *)
(***************************************************************************)
VARIABLES
  steps,             \* schedule.steps
  flood_map_choice,  \* AdaptationModel.flood_map_choice
  band_flood_img,    \* AdaptationModel.band_flood_img: the map whose band it holds
  G,                 \* the social network: G[h] is the set of neighbours of h
  agents,            \* schedule.agents: the households, by unique_id
  government,        \* AdaptationModel.government
  shock_count,       \* ticks on which the flood-shock branch of step ran
  gov_steps,         \* invocations of Government.step
  last_call,         \* the method invoked last
  calls,             \* direct calls made by a unit specification
  rp,                \* arguments and result of the last perception update
  curve,             \* arguments and results of the last damage-curve calls
  construction       \* arguments and outcome of AdaptationModel.__init__

vars ==
  <<steps, flood_map_choice, band_flood_img, G, agents, government,
    shock_count, gov_steps, last_call, calls, rp, curve, construction>>

\* What the calls of a single function leave alone.
function_vars == <<rp, curve, construction>>

model_vars == <<steps, flood_map_choice, band_flood_img, G, shock_count>>

(***************************************************************************)
(* agents.py: Households.__init__ and Government.__init__                  *)
(***************************************************************************)
IncomeCategories == {"low", "middle", "high"}

clamp_depth(depth) == IF depth < 0 THEN 0 ELSE depth

\* agents.py:61-76: one estimated depth per flood map, then 0 for no flood.
estimated_depths(location) ==
  [i \in 1..4 |->
     IF i = 4 THEN 0
     ELSE clamp_depth(get_flood_depth(flood_map_choices[i], location,
                                      flood_map_choices[i]))]

\* agents.py:84: the perceived probabilities of the four scenarios, in
\* thousandths; the same list for every household, assigned nowhere else.
flood_risk == <<50, 150, 300, 500>>

Households_init(income_category, savings, location, RPt) ==
  [ income_category |-> income_category,
    savings |-> savings,
    location |-> location,
    flood_depth_estimated_list |-> estimated_depths(location),
    flood_damage_estimated_list |->
      [i \in 1..4 |-> calculate_basic_flood_damage(estimated_depths(location)[i])],
    flood_depth_actual |-> 0,
    flood_damage_actual |-> calculate_basic_flood_damage(0),
    RPt |-> RPt,
    RPt_1 |-> None,
    expected_utility_measure |-> 0,
    expected_utility_nomeasure |-> 0,
    is_adapted |-> FALSE,
    adapted_at_t |-> None,
    \* locals of the last step, kept for observation
    I_social |-> None,
    weights |-> None,
    \* the exception the last step ended with, "" for none
    raised |-> "" ]

\* The households a run is populated from: an income category, a savings
\* value of random.randint on that category's range, a location and an
\* initial perception max(0, min(normal(0.5, 0.5), 1)).
InitialHouseholds ==
  << Households_init("low", savings_levels["low"][1], 1, 0),
     Households_init("middle", savings_levels["middle"][1], 2, PerMille),
     Households_init("high", savings_levels["high"][1], 3, PerMille \div 2) >>

\* The populations, up to renaming the households (the activation order
\* ranges over every permutation, the graphs over every graph).
InitialPopulations ==
  { [h \in HouseholdIds |-> InitialHouseholds[f[h]]] :
      f \in { g \in [HouseholdIds -> DOMAIN InitialHouseholds] :
                \A h, k \in HouseholdIds : h < k => g[h] <= g[k] } }

Government_init(subsidie_level, information_bias) ==
  [ spendings |-> 0,
    subsidies |-> subsidie_level,
    information |-> PerMille \div 2 + information_bias,
    previous_adapted_households |-> 0 ]

\* Households.__init__ reads every map into model.band_flood_img
\* (agents.py:61-65): the band of the last one stays.
band_after_construction(choice) ==
  IF HouseholdIds = {} THEN choice
  ELSE flood_map_choices[Len(flood_map_choices)]

\* The graphs of initialize_network: symmetric, without self-loops.
Graphs ==
  { g \in [HouseholdIds -> SUBSET HouseholdIds] :
      \A h \in HouseholdIds :
        /\ h \notin g[h]
        /\ \A k \in g[h] : h \in g[k] }

(***************************************************************************)
(* agents.py: Households.step                                              *)
(***************************************************************************)
\* The stochastic draws of one step.  The sums over the four scenarios of
\* the utilities of adapting and of not adapting (fresh normal draws of
\* delta, lambda and theta in every call), and random.uniform(0.95, 1.05)
\* in hundredths.
UtilityDraws == { <<-1, -2>>, <<-2, -1>> }
NoiseFactors == {95, 105}

RECURSIVE SumRPt(_, _)
SumRPt(ag, S) ==
  IF S = {} THEN 0
  ELSE LET k == CHOOSE x \in S : TRUE
       IN ag[k].RPt + SumRPt(ag, S \ {k})

\* Mutant: the mean is taken without the test for neighbours, an empty sum
\* counting as 0.
social_signal_unguarded(ag, h) ==
  IF Cardinality(G[h]) > 0
    THEN SumRPt(ag, G[h]) \div Cardinality(G[h])
    ELSE 0

\* agents.py:119-122: np.mean over the neighbours, 1 without neighbours.
social_signal(ag, h) ==
  IF Cardinality(G[h]) > 0
    THEN SumRPt(ag, G[h]) \div Cardinality(G[h])
    ELSE PerMille

\* Mutant: the savings gate is left out.
adaptation_condition_ungated(eu_measure, eu_nomeasure, savings, subsidies) ==
  eu_measure > eu_nomeasure

\* agents.py:160: the adaptation condition.
adaptation_condition(eu_measure, eu_nomeasure, savings, subsidies) ==
  /\ eu_measure > eu_nomeasure
  /\ savings > cost_measure - subsidies + savings_threshold

\* Mutant: the flag is rewritten by every comparison.
adapted_after_overwritten(is_adapted, adapts) == adapts

\* agents.py:160-161: is_adapted is only ever set to True.
adapted_after(is_adapted, adapts) == IF adapts THEN TRUE ELSE is_adapted

\* functions.py:225-228: the outcome x handed to the utility function.  The
\* argument percieved_flood_damage is a number of USD (agents.py:132, an
\* entry of flood_damage_estimated_list); the curves read their argument as
\* a depth in metres, here mm.
outcome(percieved_flood_damage, cost_of_measure, subsidie, action) ==
  IF action
    THEN -cost_of_measure + subsidie
           - calculate_adapted_flood_damage(percieved_flood_damage * PerMille)
    ELSE -calculate_basic_flood_damage(percieved_flood_damage * PerMille)

\* functions.py:339: (-x) ** theta with a normal draw of theta is a real
\* number only for a base -x >= 0; Python gives a complex number otherwise.
power_is_real(x) == -x >= 0

\* agents.py:132: zip stops at the shorter list.
scenarios(self) ==
  1 .. (IF Len(flood_risk) < Len(self.flood_damage_estimated_list)
          THEN Len(flood_risk)
          ELSE Len(self.flood_damage_estimated_list))

\* agents.py:134-153: the outcomes of scenario i for action=True and for
\* action=False.
outcome_measure(self, gov, i) ==
  outcome(self.flood_damage_estimated_list[i], cost_measure, gov.subsidies, TRUE)

outcome_nomeasure(self, gov, i) ==
  outcome(self.flood_damage_estimated_list[i], cost_measure, gov.subsidies, FALSE)

\* The flag Households.step hands to the perception update (agents.py:124).
flood_flag_of_step == Truthy(flood_occurs)

\* agents.py:132-153: whether every utility the loop computes is a real
\* number.  It depends on the damage list, the cost and the subsidy alone,
\* none of which a step or the shock assigns, so the actions evaluate it
\* once per household and hand it to the step as is_real.
utilities_are_real(self, gov) ==
  \A i \in scenarios(self) :
    /\ power_is_real(outcome_measure(self, gov, i))
    /\ power_is_real(outcome_nomeasure(self, gov, i))

\* agents.py:114-178: what the step of household h makes of self, at
\* schedule step t.
Households_step_self(ag, h, gov, t, utility, noise, is_real) ==
  LET self == ag[h]
      RPt_1 == self.RPt
      I_social == social_signal(ag, h)
      RPt == risk_perception_bayesian_PT(RPt_1, I_social, gov.information,
                                         flood_flag_of_step)
      eu_measure == self.expected_utility_measure + utility[1]
      eu_nomeasure == self.expected_utility_nomeasure + utility[2]
      adapts == adaptation_condition(eu_measure, eu_nomeasure, self.savings,
                                     gov.subsidies)
      paid == IF adapts THEN self.savings - cost_measure ELSE self.savings
      perceived ==
        [self EXCEPT
           !.RPt_1 = Some(RPt_1),
           !.I_social = Some(I_social),
           !.weights = Some(rp_experience_weights(flood_flag_of_step)),
           !.RPt = RPt]
  IN IF is_real
       THEN [perceived EXCEPT
               !.expected_utility_measure = eu_measure,
               !.expected_utility_nomeasure = eu_nomeasure,
               !.is_adapted = adapted_after(self.is_adapted, adapts),
               !.adapted_at_t = IF adapts THEN Some(t) ELSE self.adapted_at_t,
               !.savings = (paid * noise) \div 100 ]
       \* An expected utility is a complex number, which the sums keep
       \* (agents.py:142, 153); the comparison of agents.py:160 raises
       \* TypeError on it and the step ends there.
       ELSE [perceived EXCEPT !.raised = "TypeError"]

\* Mutant: the step writes its new perception onto its neighbours as well.
Households_step_onto_neighbours(ag, h, gov, t, utility, noise, is_real) ==
  [k \in DOMAIN ag |->
     IF k = h
       THEN Households_step_self(ag, h, gov, t, utility, noise, is_real)
     ELSE IF k \in G[h]
       THEN [ag[k] EXCEPT
               !.RPt = Households_step_self(ag, h, gov, t, utility, noise,
                                            is_real).RPt]
     ELSE ag[k]]

\* One household's step on the agents ag: every assignment of
\* Households.step is to an attribute of self.
Households_step(ag, h, gov, t, utility, noise, is_real) ==
  [ag EXCEPT ![h] = Households_step_self(ag, h, gov, t, utility, noise, is_real)]

(***************************************************************************)
(* agents.py: Government.step                                              *)
(***************************************************************************)
total_adapted(ag) == Cardinality({h \in DOMAIN ag : ag[h].is_adapted})

\* Mutant: the campaign factor without abs.
campaign_cost_signed(information) ==
  (2000 * (PerMille \div 2 - information)) \div (PerMille \div 10)

\* 2000 * abs(0.5 - information) / 0.1, in USD.
campaign_cost(information) ==
  (2000 * Abs(PerMille \div 2 - information)) \div (PerMille \div 10)

\* Mutant: the memo of the adapted count is not updated.
Government_step_without_memo(gov, ag) ==
  LET campaigned ==
        IF gov.information # PerMille \div 2
          THEN [gov EXCEPT !.spendings = @ + campaign_cost(gov.information)]
          ELSE gov
  IN IF campaigned.subsidies > 0
       THEN [campaigned EXCEPT
               !.spendings =
                  @ + campaigned.subsidies *
                        (total_adapted(ag) - campaigned.previous_adapted_households)]
       ELSE campaigned

Government_step(gov, ag) ==
  LET campaigned ==
        IF gov.information # PerMille \div 2
          THEN [gov EXCEPT !.spendings = @ + campaign_cost(gov.information)]
          ELSE gov
  IN IF campaigned.subsidies > 0
       THEN [campaigned EXCEPT
               !.spendings =
                  @ + campaigned.subsidies *
                        (total_adapted(ag) - campaigned.previous_adapted_households),
               !.previous_adapted_households = total_adapted(ag)]
       ELSE campaigned

(***************************************************************************)
(* model.py: AdaptationModel                                               *)
(***************************************************************************)
\* Mutants: the shock on every tick from the index on, and one tick early.
shock_due_from(t) == t >= flood_occurs
shock_due_early(t) == t + 1 = flood_occurs

\* model.py:217: the tick of the flood shock.
shock_due(t) == t = flood_occurs

\* Mutant: the shock takes the actual depth for the estimate of the first
\* scenario as well.
flood_shock_reestimating(ag) ==
  [h \in HouseholdIds |->
     LET depth == clamp_depth(get_flood_depth(flood_map_choice, ag[h].location,
                                              band_flood_img))
     IN [ag[h] EXCEPT
           !.flood_depth_actual = depth,
           !.flood_depth_estimated_list = [@ EXCEPT ![1] = depth + 1],
           !.flood_damage_actual =
              IF ag[h].is_adapted
                THEN calculate_adapted_flood_damage(depth)
                ELSE calculate_basic_flood_damage(depth)]]

\* Mutant: the shock values every household on the unmitigated curve.
flood_shock_unmitigated(ag) ==
  [h \in HouseholdIds |->
     LET depth == clamp_depth(get_flood_depth(flood_map_choice, ag[h].location,
                                              band_flood_img))
     IN [ag[h] EXCEPT
           !.flood_depth_actual = depth,
           !.flood_damage_actual = calculate_basic_flood_damage(depth)]]

\* model.py:218-235: the shock on every agent of the schedule.
flood_shock(ag) ==
  [h \in HouseholdIds |->
     LET depth == clamp_depth(get_flood_depth(flood_map_choice, ag[h].location,
                                              band_flood_img))
     IN [ag[h] EXCEPT
           !.flood_depth_actual = depth,
           !.flood_damage_actual =
              IF ag[h].is_adapted
                THEN calculate_adapted_flood_damage(depth)
                ELSE calculate_basic_flood_damage(depth)]]

\* Mutant: the shock without its guard.
shock_logic_unguarded(ag, t) == flood_shock(ag)

\* model.py:217-235: the shock logic of a tick at schedule step t.
shock_logic(ag, t) == IF shock_due(t) THEN flood_shock(ag) ELSE ag

\* RandomActivation: the orders the agents of the schedule can be shuffled to.
ActivationOrders ==
  { o \in [1..Cardinality(HouseholdIds) -> HouseholdIds] :
      \A i, j \in DOMAIN o : i # j => o[i] # o[j] }

\* schedule.step: every scheduled agent steps, in the shuffled order, each on
\* the state the earlier ones left.
crashed(ag) == \E h \in DOMAIN ag : ag[h].raised # ""

RECURSIVE schedule_step(_, _, _, _, _, _, _)
schedule_step(ag, order, gov, t, utility, noise, is_real) ==
  IF order = << >> \/ crashed(ag) THEN ag
  ELSE schedule_step(
         Households_step(ag, Head(order), gov, t, utility[Head(order)],
                         noise[Head(order)], is_real[Head(order)]),
         Tail(order), gov, t, utility, noise, is_real)

\* No damage curve called directly yet.
curve_idle ==
  [evaluated |-> FALSE, lo |-> 0, hi |-> 0,
   basic_lo |-> 0, basic_hi |-> 0, adapted_lo |-> 0, adapted_hi |-> 0]

\* The constructor has returned a model.
construction_done == [called |-> TRUE, raised |-> "", named |-> {}, args |-> None]

\* The model as constructed with a subsidy level and an information bias of
\* the given sets.
InitModelOf(subsidies, biases) ==
  /\ curve = curve_idle
  /\ construction = construction_done
  /\ steps = 0
  /\ flood_map_choice \in FloodMapChoices
  /\ band_flood_img = band_after_construction(flood_map_choice)
  /\ G \in Graphs
  /\ agents \in InitialPopulations
  /\ \E s \in subsidies, i \in biases :
       government = Government_init(s, i)
  /\ shock_count = 0
  /\ gov_steps = 0
  /\ last_call = "__init__"

InitModelWith(biases) == InitModelOf(SubsidyLevels, biases)

InitModel == InitModelWith(InformationBias)

\* No perception update called directly yet.
rp_idle ==
  [RPt_1 |-> 0, I_social |-> 0, I_media |-> 0, flood_occurs |-> FALSE, RPt |-> 0,
   prior_is_None |-> FALSE, raised |-> ""]

Init == InitModel /\ calls = 0 /\ rp = rp_idle

\* AdaptationModel.step: the shock when due, then schedule.step.  The
\* government is not on the schedule (model.py:76, 82-88): no agent of the
\* schedule steps it.
AdaptationModel_step ==
  /\ steps < MaxSteps
  /\ ~crashed(agents)
  /\ \E is_real \in {[h \in HouseholdIds |->
                          utilities_are_real(agents[h], government)]},
        order \in ActivationOrders,
        utility \in [HouseholdIds -> UtilityDraws],
        noise \in [HouseholdIds -> NoiseFactors] :
       agents' = schedule_step(shock_logic(agents, steps), order, government,
                               steps, utility, noise, is_real)
  /\ shock_count' = IF shock_due(steps) THEN shock_count + 1 ELSE shock_count
  /\ steps' = IF crashed(agents') THEN steps ELSE steps + 1
  /\ last_call' = "AdaptationModel.step"
  /\ UNCHANGED <<flood_map_choice, band_flood_img, G, government, gov_steps,
                 calls, function_vars>>

Next == AdaptationModel_step

Spec == Init /\ [][Next]_vars

\* The same ticks with any information_bias the constructor accepts: it
\* takes the argument as given (model.py:76, agents.py:199), so also a bias
\* beyond +-0.5.
AnyInformationBias == InformationBias \cup {-600, 600}

InitAnyBias == InitModelWith(AnyInformationBias) /\ calls = 0 /\ rp = rp_idle

SpecAnyBias == InitAnyBias /\ [][Next]_vars

\* The same ticks with a subsidie_level above the cost of the measure, which
\* the constructor accepts as well (model.py:76, agents.py:196).
AnySubsidyLevels == SubsidyLevels \cup {40000}

InitAnySubsidy ==
  InitModelOf(AnySubsidyLevels, InformationBias) /\ calls = 0 /\ rp = rp_idle

SpecAnySubsidy == InitAnySubsidy /\ [][Next]_vars

(***************************************************************************)
(* Direct calls of the agents' methods, in any order: Households.step of   *)
(* one household, Government.step.  schedule.steps stays as constructed.   *)
(***************************************************************************)
call_Households_step(h) ==
  /\ calls < MaxCalls
  /\ ~crashed(agents)
  /\ \E is_real \in {utilities_are_real(agents[h], government)},
        utility \in UtilityDraws, noise \in NoiseFactors :
       agents' = Households_step(agents, h, government, steps, utility, noise,
                                 is_real)
  /\ calls' = calls + 1
  /\ last_call' = "Households.step"
  /\ UNCHANGED <<model_vars, government, gov_steps, function_vars>>

call_Government_step ==
  /\ calls < MaxCalls
  /\ government' = Government_step(government, agents)
  /\ gov_steps' = gov_steps + 1
  /\ calls' = calls + 1
  /\ last_call' = "Government.step"
  /\ UNCHANGED <<model_vars, agents, function_vars>>

NextUnits ==
  \/ \E h \in DOMAIN agents : call_Households_step(h)
  \/ call_Government_step

SpecUnits == Init /\ [][NextUnits]_vars

(***************************************************************************)
(* one configuration: a middle and a high income household linked to each *)
(* other, the harvey map, the higher subsidy and no information bias.      *)
(***************************************************************************)
InitTicksAndPolicy ==
  /\ Init
  /\ agents = [h \in HouseholdIds |-> InitialHouseholds[h + 2]]
  /\ G = [h \in HouseholdIds |-> HouseholdIds \ {h}]
  /\ flood_map_choice = "harvey"
  /\ government = Government_init(30000, 0)

NextTicksAndPolicy ==
  \/ AdaptationModel_step
  \/ call_Government_step

SpecTicksAndPolicy == InitTicksAndPolicy /\ [][NextTicksAndPolicy]_vars

(***************************************************************************)
(* The same direct calls in a neighbourhood of three households, one of    *)
(* each profile, where a household can have two neighbours.                *)
(***************************************************************************)
Neighbourhood == 0 .. 2

\* Everyone linked; a chain 0 - 1 - 2; household 0 isolated.
NeighbourhoodGraphs ==
  { [h \in Neighbourhood |-> Neighbourhood \ {h}],
    (0 :> {1}) @@ (1 :> {0, 2}) @@ (2 :> {1}),
    (0 :> {}) @@ (1 :> {2}) @@ (2 :> {1}) }

InitNeighbourhood ==
  /\ steps = 0
  /\ flood_map_choice \in FloodMapChoices
  /\ band_flood_img = band_after_construction(flood_map_choice)
  /\ G \in NeighbourhoodGraphs
  /\ agents = [h \in Neighbourhood |-> InitialHouseholds[h + 1]]
  /\ \E s \in SubsidyLevels : government = Government_init(s, 0)
  /\ shock_count = 0
  /\ gov_steps = 0
  /\ last_call = "__init__"
  /\ calls = 0
  /\ rp = rp_idle
  /\ curve = curve_idle
  /\ construction = construction_done

SpecNeighbourhood == InitNeighbourhood /\ [][NextUnits]_vars

(***************************************************************************)
(* Direct calls of risk_perception_bayesian_PT, each fed with the result   *)
(* of the one before as the prior.                                         *)
(***************************************************************************)
\* Signals and initial perceptions in [0, 1], around the thresholds tau and
\* 1 - tau.
SignalGrid == {0, 199, 200, 500, 800, 801, PerMille}

InitRP ==
  /\ InitModel
  /\ G = [h \in HouseholdIds |-> {}]
  /\ flood_map_choice = "harvey"
  /\ agents = [h \in HouseholdIds |-> InitialHouseholds[1]]
  /\ government = Government_init(0, 0)
  /\ calls = 0
  /\ rp \in {[rp_idle EXCEPT !.RPt = p] : p \in SignalGrid}

call_risk_perception ==
  /\ calls < MaxUpdates
  /\ \E I_social \in SignalGrid, I_media \in SignalGrid, flag \in BOOLEAN :
       rp' = [RPt_1 |-> rp.RPt, I_social |-> I_social, I_media |-> I_media,
              flood_occurs |-> flag,
              RPt |-> risk_perception_bayesian_PT(rp.RPt, I_social, I_media, flag),
              prior_is_None |-> FALSE, raised |-> ""]
  /\ calls' = calls + 1
  /\ last_call' = "risk_perception_bayesian_PT"
  /\ UNCHANGED <<model_vars, agents, government, gov_steps, curve, construction>>

\* The call with RPt_1 = None, the prior of a household that has not
\* stepped (agents.py:103).  A call that raises returns nothing: the
\* perception held stays.
call_risk_perception_None_prior ==
  /\ calls < MaxUpdates
  /\ \E I_social \in SignalGrid, I_media \in SignalGrid, flag \in BOOLEAN :
       LET r == risk_perception_bayesian_PT_call(None, I_social, I_media, flag)
       IN rp' = [RPt_1 |-> 0, I_social |-> I_social, I_media |-> I_media,
                 flood_occurs |-> flag,
                 RPt |-> IF r.raised = "" THEN r.RPt[1] ELSE rp.RPt,
                 prior_is_None |-> TRUE, raised |-> r.raised]
  /\ calls' = calls + 1
  /\ last_call' = "risk_perception_bayesian_PT"
  /\ UNCHANGED <<model_vars, agents, government, gov_steps, curve, construction>>

NextRP ==
  \/ call_risk_perception
  \/ call_risk_perception_None_prior

SpecRP == InitRP /\ [][NextRP]_vars

(***************************************************************************)
(* The constructor AdaptationModel.__init__ on valid and invalid           *)
(* configurations, starting before any attribute is assigned.              *)
(***************************************************************************)
\* model.py:129-144: the network kinds with a branch.
NetworkKinds == {"erdos_renyi", "barabasi_albert", "watts_strogatz", "no_network"}

\* model.py:158-162: the keys of flood_map_paths.
flood_map_paths == {"harvey", "100yr", "500yr"}

\* Arguments tried: every valid name, a name of no branch, a valid name in
\* another case.
NetworkArguments == NetworkKinds \cup {"small_world", "No_Network"}
FloodMapArguments == flood_map_paths \cup {"1000yr", "Harvey"}

ConstructorArguments ==
  [network : NetworkArguments, flood_map_choice : FloodMapArguments,
   subsidie_level : SubsidyLevels, information_bias : InformationBias]

\* model.py:126-150: a graph on the households, or the ValueError of the
\* else branch with the kinds its message lists.
initialize_network(network) ==
  IF network = "no_network"
    THEN [raised |-> "", named |-> {}, graphs |-> {[h \in HouseholdIds |-> {}]}]
  ELSE IF network \in NetworkKinds
    THEN [raised |-> "", named |-> {}, graphs |-> Graphs]
  ELSE [raised |-> "ValueError", named |-> NetworkKinds, graphs |-> {}]

\* Mutant: an unknown choice falls back to the default map.
initialize_maps_with_default(choice) ==
  [raised |-> "", named |-> {}]

\* model.py:153-175: the ValueError with the keys its message lists, or the
\* map loaded.
initialize_maps(choice) ==
  IF choice \notin flood_map_paths
    THEN [raised |-> "ValueError", named |-> flood_map_paths]
    ELSE [raised |-> "", named |-> {}]

InitConstruct ==
  /\ steps = 0
  /\ flood_map_choice = ""
  /\ band_flood_img = ""
  /\ G = << >>
  /\ agents = << >>
  /\ government = None
  /\ shock_count = 0
  /\ gov_steps = 0
  /\ last_call = ""
  /\ calls = 0
  /\ rp = rp_idle
  /\ curve = curve_idle
  /\ \E a \in ConstructorArguments :
       construction = [called |-> FALSE, raised |-> "", named |-> {},
                       args |-> Some(a)]

\* model.py:28-123, in the order of its statements: the network (62), the
\* map choice (69-70), the schedule and the government (73-76), the
\* households (82-88).  A raise leaves what follows it undone.
AdaptationModel_init ==
  /\ ~construction.called
  /\ LET a == construction.args[1]
         net == initialize_network(a.network)
         maps == initialize_maps(a.flood_map_choice)
     IN IF net.raised # ""
          THEN /\ construction' = [construction EXCEPT !.called = TRUE,
                                     !.raised = net.raised, !.named = net.named]
               /\ UNCHANGED <<G, flood_map_choice, band_flood_img, agents,
                              government>>
        ELSE IF maps.raised # ""
          THEN /\ G' \in net.graphs
               /\ flood_map_choice' = a.flood_map_choice
               /\ construction' = [construction EXCEPT !.called = TRUE,
                                     !.raised = maps.raised, !.named = maps.named]
               /\ UNCHANGED <<band_flood_img, agents, government>>
        ELSE /\ G' \in net.graphs
             /\ flood_map_choice' = a.flood_map_choice
             /\ government' = Government_init(a.subsidie_level, a.information_bias)
             /\ agents' \in InitialPopulations
             /\ band_flood_img' = band_after_construction(a.flood_map_choice)
             /\ construction' = [construction EXCEPT !.called = TRUE]
  /\ last_call' = "__init__"
  /\ UNCHANGED <<steps, shock_count, gov_steps, calls, rp, curve>>

NextConstruct == AdaptationModel_init

SpecConstruct == InitConstruct /\ [][NextConstruct]_vars

(***************************************************************************)
(* Direct calls of the two depth-to-damage curves on a pair of depths.     *)
(***************************************************************************)
\* Depths in mm, around the thresholds of both curves and up to 8 m.
DepthGrid ==
  {0, 24, 25, 500, 1000, 1024, 1025, 1500, 2000, 3000, 4000, 5000, 5999,
   6000, 6194, 6500, 6999, 7000, 8000}

InitDamage == InitRP /\ rp = rp_idle

call_damage_curves ==
  /\ ~curve.evaluated
  /\ \E lo \in DepthGrid, hi \in DepthGrid :
       /\ lo <= hi
       /\ curve' = [evaluated |-> TRUE, lo |-> lo, hi |-> hi,
                    basic_lo |-> calculate_basic_flood_damage(lo),
                    basic_hi |-> calculate_basic_flood_damage(hi),
                    adapted_lo |-> calculate_adapted_flood_damage(lo),
                    adapted_hi |-> calculate_adapted_flood_damage(hi)]
  /\ last_call' = "calculate_flood_damage"
  /\ UNCHANGED <<model_vars, agents, government, gov_steps, calls, rp,
                 construction>>

NextDamage == call_damage_curves

SpecDamage == InitDamage /\ [][NextDamage]_vars

(***************************************************************************)
(* Properties.                                                             *)
(***************************************************************************)
no_flood_weights == [a |-> 100, b |-> 4, I_experience |-> 0]
flood_weights == [a |-> 10, b |-> 100, I_experience |-> PerMille]

\* C1: fed with a prior, a social signal and a media signal in [0,1] and
\* either flood flag, the perception update returns a value in [0,1], so the
\* perception stays in [0,1] over any sequence of such updates.
C1_PerceptionStaysInUnitInterval ==
  (/\ rp.RPt_1 \in 0..PerMille
   /\ rp.I_social \in 0..PerMille
   /\ rp.I_media \in 0..PerMille)
    => rp.RPt \in 0..PerMille

\* A second update in a row, with the flood flag and every signal at 1,
\* returning exactly 1.
C1_Witness ==
  /\ calls >= 2
  /\ rp.flood_occurs
  /\ rp.I_social = PerMille
  /\ rp.I_media = PerMille
  /\ rp.RPt = PerMille

\* C2: once is_adapted is true of a household it is true in every later
\* state, and the count of adapted households never decreases over a tick.
C2_AdaptedIsMonotonic ==
  [][ /\ \A h \in HouseholdIds : agents[h].is_adapted => agents'[h].is_adapted
      /\ total_adapted(agents') >= total_adapted(agents) ]_vars

\* After the shock tick, an adapted household whose utility comparison no
\* longer favours adapting.
C2_Witness ==
  /\ steps > flood_occurs
  /\ \E h \in HouseholdIds :
       /\ agents[h].is_adapted
       /\ agents[h].expected_utility_measure < agents[h].expected_utility_nomeasure

\* C3: is_adapted turns from false to true in a step only if the savings at
\* the decision exceed cost_measure - subsidies + 5000; a household with
\* savings 0 under subsidy 0 stays unadapted, with savings 0.
C3_SavingsGate ==
  [][ \A h \in HouseholdIds :
        /\ (~agents[h].is_adapted /\ agents'[h].is_adapted)
             => agents[h].savings > 35000 - government.subsidies + 5000
        /\ (agents[h].savings = 0 /\ government.subsidies = 0
              /\ ~agents[h].is_adapted)
             => (~agents'[h].is_adapted /\ agents'[h].savings = 0) ]_vars

\* After two ticks without subsidy, a household without savings whose
\* utilities favour adapting is unadapted, beside one that adapted.
C3_Witness ==
  /\ steps >= 2
  /\ government.subsidies = 0
  /\ \E h, k \in HouseholdIds :
       /\ agents[h].savings = 0
       /\ agents[h].expected_utility_measure > agents[h].expected_utility_nomeasure
       /\ ~agents[h].is_adapted
       /\ agents[k].is_adapted

\* The actual depth and damage of every household.
actual_values(ag) ==
  [h \in HouseholdIds |-> <<ag[h].flood_depth_actual, ag[h].flood_damage_actual>>]

\* C4: the flood-shock logic runs on exactly one tick, the one at which the
\* step counter equals the shock index, and after that tick no household's
\* flood_depth_actual or flood_damage_actual changes, adapting or not.
C4_ShockOnceThenFixed ==
  /\ [](shock_count = IF steps > flood_occurs THEN 1 ELSE 0)
  /\ [][ steps > flood_occurs => actual_values(agents') = actual_values(agents) ]_vars

\* A tick after the shock tick is over, and a household that adapted on it
\* still has the unmitigated damage of the shock.
C4_Witness ==
  /\ steps > flood_occurs + 1
  /\ \E h \in HouseholdIds :
       /\ agents[h].is_adapted
       /\ agents[h].adapted_at_t = Some(steps - 1)
       /\ agents[h].flood_depth_actual > 0
       /\ agents[h].flood_damage_actual
            = calculate_basic_flood_damage(agents[h].flood_depth_actual)
       /\ agents[h].flood_damage_actual
            # calculate_adapted_flood_damage(agents[h].flood_depth_actual)

\* C5: in every state before the flood-shock tick every household's
\* flood_depth_actual and flood_damage_actual are 0.
C5_ZeroBeforeShock ==
  steps <= flood_occurs =>
    \A h \in HouseholdIds :
      agents[h].flood_depth_actual = 0 /\ agents[h].flood_damage_actual = 0

\* Right before the shock tick: a household on flooded ground has stepped
\* and adapted.
C5_Witness ==
  /\ steps = flood_occurs
  /\ \E h \in HouseholdIds :
       /\ agents[h].is_adapted
       /\ agents[h].RPt_1 # None
       /\ get_flood_depth(flood_map_choice, agents[h].location, band_flood_img) > 0

\* C6: on households already shocked, the shock logic of step changes no
\* flood_depth_actual and no flood_damage_actual, whatever they did since.
C6_ShockIdempotent ==
  shock_count >= 1 =>
    actual_values(shock_logic(agents, steps)) = actual_values(agents)

\* A shocked household that adapted since: the mitigated curve would give
\* it another damage.
C6_Witness ==
  /\ shock_count = 1
  /\ \E h \in HouseholdIds :
       /\ agents[h].is_adapted
       /\ actual_values(flood_shock(agents))[h] # actual_values(agents)[h]

\* C7: within a tick every household's social signal is the mean of its
\* neighbours' perceptions as they were at the start of the tick (1 without
\* neighbours), whatever the activation order.
C7_SocialSignalFromSnapshot ==
  [][ steps' = steps + 1 =>
        \A h \in HouseholdIds :
          agents'[h].I_social = Some(social_signal(agents, h)) ]_vars

\* C8: Government.step runs once on every tick, so after k ticks the
\* spendings hold k campaign accruals and the subsidy of every household
\* adapted so far.
C8_GovernmentStepsEveryTick ==
  /\ gov_steps = steps
  /\ government.spendings
       = steps * 20 * Abs(government.information - PerMille \div 2)
         + government.subsidies * total_adapted(agents)

\* C9: after N invocations of Government.step the spendings are the subsidy
\* level times the households adapted up to the last invocation, plus N
\* campaign accruals of 2000 * |bias| / 0.1.
C9_SpendingsAfterGovernmentSteps ==
  last_call = "Government.step" =>
    government.spendings
      = government.subsidies * total_adapted(agents)
        + gov_steps * 20 * Abs(government.information - PerMille \div 2)

\* Two invocations under a subsidy and a biased campaign, with households
\* adapted before the last one.
C9_Witness ==
  /\ last_call = "Government.step"
  /\ gov_steps >= 2
  /\ government.subsidies > 0
  /\ government.information # PerMille \div 2
  /\ total_adapted(agents) >= 1
  /\ government.spendings > gov_steps * campaign_cost(government.information)

\* C10: the perception update of a tick uses the flood weights (a = 0.1,
\* b = 1, experience 1) on the tick of the flood only, and the no-flood
\* weights (a = 1, b = 0.04, experience 0) on every other tick.
C10_FloodWeightsOnFloodTickOnly ==
  [][ steps' = steps + 1 =>
        \A h \in HouseholdIds :
          agents'[h].weights
            = Some(IF steps = flood_occurs THEN flood_weights
                   ELSE no_flood_weights) ]_vars

\* C11: after a household's step its expected utilities are the sums of the
\* utilities computed in that step alone, with nothing carried over from
\* earlier steps.
C11_UtilitiesOfThisStepOnly ==
  [][ steps' = steps + 1 =>
        \A h \in HouseholdIds :
          << agents'[h].expected_utility_measure,
             agents'[h].expected_utility_nomeasure >> \in UtilityDraws ]_vars

\* C12: from the shock tick on, every household's flood_depth_actual is the
\* depth of the configured flood map at its location, floored at 0.
C12_ActualDepthOfConfiguredMap ==
  shock_count >= 1 =>
    \A h \in HouseholdIds :
      agents[h].flood_depth_actual
        = (IF band_of[flood_map_choice][agents[h].location] < 0 THEN 0
           ELSE band_of[flood_map_choice][agents[h].location])

\* C13: adapted_at_t is null while the household is unadapted, is set to the
\* step index on the step of its first adaptation, and never changes after.
C13_AdaptedAtSetOnce ==
  [][ \A h \in HouseholdIds :
        /\ ~agents'[h].is_adapted => agents'[h].adapted_at_t = None
        /\ (~agents[h].is_adapted /\ agents'[h].is_adapted)
             => agents'[h].adapted_at_t = Some(steps)
        /\ agents[h].adapted_at_t # None
             => agents'[h].adapted_at_t = agents[h].adapted_at_t ]_vars

\* C14: the perception update called with a null prior raises no error and
\* returns what the call with prior 0.0 and the same signals and flag returns.
C14_NullPriorIsZero ==
  rp.prior_is_None =>
    /\ rp.raised = ""
    /\ rp.RPt = risk_perception_bayesian_PT(0, rp.I_social, rp.I_media,
                                            rp.flood_occurs)

\* C15: the social signal a household uses in its step is exactly 1.0 when
\* it has no neighbours, and the arithmetic mean of its neighbours' RPt
\* when it has some.
C15_SocialSignal ==
  [][ \A h \in DOMAIN agents :
        agents'[h] # agents[h] =>
          agents'[h].I_social
            = Some(IF G[h] = {} THEN PerMille
                   ELSE SumRPt(agents, G[h]) \div Cardinality(G[h])) ]_vars

\* An isolated household has stepped on the signal 1.0 although its own
\* prior was not 1.0, next to a household that stepped on its neighbour's.
C15_Witness ==
  \E h, k \in DOMAIN agents :
    /\ G[h] = {}
    /\ agents[h].I_social = Some(PerMille)
    /\ agents[h].RPt_1 # None
    /\ agents[h].RPt_1 # Some(PerMille)
    /\ G[k] # {}
    /\ agents[k].I_social # None
    /\ agents[k].I_social # Some(PerMille)

\* C16: both depth-to-damage curves are non-decreasing in depth and never
\* exceed the saturation value 1 (times 100000); the unmitigated one is 0
\* below 0.025 and exactly 1 from depth 6, the mitigated one is 0 below
\* 1.025 and exactly 1 from depth 7.
C16_CurvesMonotoneAndSaturating ==
  curve.evaluated =>
    /\ curve.basic_lo <= curve.basic_hi
    /\ curve.adapted_lo <= curve.adapted_hi
    /\ curve.basic_hi <= 100000
    /\ curve.adapted_hi <= 100000
    /\ curve.lo < 25 => curve.basic_lo = 0
    /\ curve.hi >= 6000 => curve.basic_hi = 100000
    /\ curve.lo < 1025 => curve.adapted_lo = 0
    /\ curve.hi >= 7000 => curve.adapted_hi = 100000

\* C18: constructing the model with an unknown flood_map_choice or an
\* unknown network kind raises a ValueError naming the valid choices of the
\* offending argument; no default map is loaded and no household is created
\* or scheduled.
C18_InvalidConfigurationRaises ==
  construction.called /\ construction.args # None =>
    LET a == construction.args[1]
    IN /\ a.network \notin NetworkKinds =>
            /\ construction.raised = "ValueError"
            /\ construction.named = NetworkKinds
       /\ (a.network \in NetworkKinds /\ a.flood_map_choice \notin flood_map_paths) =>
            /\ construction.raised = "ValueError"
            /\ construction.named = flood_map_paths
       /\ (a.network \notin NetworkKinds \/ a.flood_map_choice \notin flood_map_paths) =>
            /\ DOMAIN agents = {}
            /\ band_flood_img = ""
            /\ government = None

\* The constructor was called with a valid network and an unknown map, and
\* raised.
C18_Witness ==
  /\ construction.called
  /\ construction.args # None
  /\ construction.args[1].network \in NetworkKinds
  /\ construction.args[1].flood_map_choice \notin flood_map_paths
  /\ construction.raised = "ValueError"

\* C19: in every reachable state of a simulation, whatever the subsidy
\* level, every household's savings is >= 0, also right after it has paid
\* for an adaptation.
C19_SavingsNonNegative ==
  \A h \in HouseholdIds : agents[h].savings >= 0

\* C20: in every reachable state of a simulation, for every configured
\* information bias, Government.information lies in [0, 1] and so do every
\* household's RPt and non-null RPt_1.
C20_SignalsInUnitInterval ==
  /\ government.information \in 0 .. PerMille
  /\ \A h \in HouseholdIds :
       /\ agents[h].RPt \in 0 .. PerMille
       /\ agents[h].RPt_1 # None => agents[h].RPt_1[1] \in 0 .. PerMille

\* C21: the adaptation branch is taken only by a household that is not yet
\* adapted: the step of an already-adapted household changes its savings
\* only by the noise factor, so the cost is deducted at most once.
C21_AdaptedPaysNoMore ==
  [][ \A h \in HouseholdIds :
        (agents[h].is_adapted /\ steps' = steps + 1) =>
          \E noise \in NoiseFactors :
            agents'[h].savings = (agents[h].savings * noise) \div 100 ]_vars

\* C22: for each scenario the outcome valued in a household's step is minus
\* the unmitigated damage at the scenario's estimated depth for no_adapt,
\* and -(cost - subsidy) minus the mitigated damage at that depth for
\* adapt: each curve is applied once, to a depth.
C22_OutcomesFromDepths ==
  \A h \in HouseholdIds :
    agents[h].RPt_1 # None =>
      \A i \in scenarios(agents[h]) :
        /\ outcome_nomeasure(agents[h], government, i)
             = -calculate_basic_flood_damage(
                  agents[h].flood_depth_estimated_list[i])
        /\ outcome_measure(agents[h], government, i)
             = -(cost_measure - government.subsidies)
               - calculate_adapted_flood_damage(
                   agents[h].flood_depth_estimated_list[i])

\* C23: at the shock tick each household's flood_damage_actual is the
\* mitigated curve of its clamped actual depth if it is adapted at that
\* moment and the unmitigated curve otherwise; on every other tick the value
\* stays, so a household that adapts after the shock keeps the unmitigated
\* one.
C23_ActualDamageByAdaptationAtShock ==
  [][ steps' = steps + 1 =>
        \A h \in HouseholdIds :
          IF shock_due(steps)
            THEN agents'[h].flood_damage_actual
                   = (IF agents[h].is_adapted
                        THEN calculate_adapted_flood_damage(
                               agents'[h].flood_depth_actual)
                        ELSE calculate_basic_flood_damage(
                               agents'[h].flood_depth_actual))
            ELSE agents'[h].flood_damage_actual
                   = agents[h].flood_damage_actual ]_vars

\* After the shock, one household holds the mitigated damage of its depth
\* and another, adapted by now, the unmitigated damage of its depth, the two
\* curves differing at both depths.
C23_Witness ==
  /\ shock_count >= 1
  /\ \E h, k \in HouseholdIds :
       /\ agents[h].is_adapted
       /\ agents[h].flood_damage_actual
            = calculate_adapted_flood_damage(agents[h].flood_depth_actual)
       /\ agents[h].flood_damage_actual
            # calculate_basic_flood_damage(agents[h].flood_depth_actual)
       /\ agents[k].is_adapted
       /\ agents[k].flood_damage_actual
            = calculate_basic_flood_damage(agents[k].flood_depth_actual)
       /\ agents[k].flood_damage_actual
            # calculate_adapted_flood_damage(agents[k].flood_depth_actual)

\* C24: the perception update returns
\* (a*prior + b*experience + c*social + d*media) / (a + b + c + d), where c
\* (resp. d) is 1 if |prior - social| (resp. |prior - media|) < 0.2, 0 if it
\* is > 0.8 and 0.5 otherwise, a difference of exactly 0.2 or 0.8 getting
\* 0.5; the denominator is never zero.
C24_WeightedAverageWithTrustGating ==
  (calls >= 1 /\ ~rp.prior_is_None) =>
    LET a == IF rp.flood_occurs THEN 10 ELSE 100
        b == IF rp.flood_occurs THEN 100 ELSE 4
        experience == IF rp.flood_occurs THEN PerMille ELSE 0
        trust(difference) ==
          IF difference < 200 THEN 100
          ELSE IF difference > 800 THEN 0
          ELSE 50
        c == trust(Abs(rp.RPt_1 - rp.I_social))
        d == trust(Abs(rp.RPt_1 - rp.I_media))
    IN /\ a + b + c + d > 0
       /\ rp.RPt = (a * rp.RPt_1 + b * experience + c * rp.I_social
                      + d * rp.I_media) \div (a + b + c + d)

\* An update was made on a social signal exactly 0.2 away from the prior
\* and a media signal exactly 0.8 away from it.
C24_Witness ==
  /\ calls >= 1
  /\ ~rp.prior_is_None
  /\ Abs(rp.RPt_1 - rp.I_social) = 200
  /\ Abs(rp.RPt_1 - rp.I_media) = 800
  /\ rp.RPt # rp.RPt_1

\* C25: Government.spendings never decreases over any sequence of household
\* steps and government steps: the adapted count never falls below the
\* memo of the last government step, so every accrual is >= 0.
C25_SpendingsNeverDecrease ==
  [][ /\ government'.spendings >= government.spendings
      /\ total_adapted(agents') >= government'.previous_adapted_households
      /\ total_adapted(agents') >= total_adapted(agents) ]_vars

\* The government has stepped at least twice, has paid a subsidy for an
\* adapted household and has paid for a campaign.
C25_Witness ==
  /\ gov_steps >= 2
  /\ government.subsidies > 0
  /\ government.previous_adapted_households >= 1
  /\ government.information # PerMille \div 2
  /\ government.spendings
       > government.subsidies * government.previous_adapted_households

\* C26: for every subsidy level >= 0, also one above the adaptation cost,
\* the base -x of the power in utility_function_prospect_theory is never
\* negative for the adapt outcome of any scenario, so no household's
\* comparison is made on an undefined value.
C26_PowerBaseNonNegative ==
  \A h \in HouseholdIds :
    agents[h].RPt_1 # None =>
      /\ agents[h].raised = ""
      /\ \A i \in scenarios(agents[h]) :
           -outcome_measure(agents[h], government, i) >= 0

\* C27: a household's step mutates only that household's own savings,
\* perception, utilities and adaptation state: it leaves every other
\* household, the government and every household's actual depth and damage
\* unchanged.
C27_HouseholdStepFrame ==
  [][ last_call' = "Households.step" =>
        /\ government' = government
        /\ Cardinality({h \in DOMAIN agents : agents'[h] # agents[h]}) <= 1
        /\ \A h \in DOMAIN agents :
             /\ agents'[h].flood_depth_actual = agents[h].flood_depth_actual
             /\ agents'[h].flood_damage_actual = agents[h].flood_damage_actual
             /\ agents'[h].location = agents[h].location
             /\ agents'[h].income_category = agents[h].income_category
             /\ agents'[h].flood_depth_estimated_list
                  = agents[h].flood_depth_estimated_list
             /\ agents'[h].flood_damage_estimated_list
                  = agents[h].flood_damage_estimated_list ]_vars

\* A household with two neighbours has stepped and adapted, after the
\* government had stepped, and a neighbour of it still holds the perception
\* it was constructed with.
C27_Witness ==
  /\ last_call = "Households.step"
  /\ gov_steps >= 1
  /\ \E h \in DOMAIN agents :
       /\ Cardinality(G[h]) >= 2
       /\ agents[h].is_adapted
       /\ agents[h].RPt_1 # None
       /\ agents[h].RPt_1 # Some(agents[h].RPt)
       /\ \E k \in G[h] : agents[k].RPt_1 = None

\* C28: after construction no household step, government step or flood
\* shock modifies a household's estimated depth and damage lists; the
\* damage list has the length 4 of the scenario-probability list, its last
\* entry is 0, and the probabilities sum to at most 1.
C28_EstimatesImmutable ==
  [][ \A h \in HouseholdIds :
        /\ agents'[h].flood_depth_estimated_list
             = agents[h].flood_depth_estimated_list
        /\ agents'[h].flood_damage_estimated_list
             = agents[h].flood_damage_estimated_list
        /\ Len(agents[h].flood_damage_estimated_list) = 4
        /\ Len(flood_risk) = 4
        /\ agents[h].flood_damage_estimated_list[4] = 0
        /\ flood_risk[1] + flood_risk[2] + flood_risk[3] + flood_risk[4]
             <= PerMille ]_vars

\* The shock has run, the government has stepped and a household with a
\* non-zero estimate has adapted and holds a non-zero actual damage.
C28_Witness ==
  /\ shock_count >= 1
  /\ gov_steps >= 1
  /\ \E h \in HouseholdIds :
       /\ agents[h].is_adapted
       /\ agents[h].flood_damage_estimated_list[1] > 0
       /\ agents[h].flood_damage_actual > 0

\* C29: for every depth >= 0 the mitigated damage is at most the
\* unmitigated damage at the same depth.
C29_MitigatedAtMostUnmitigated ==
  curve.evaluated =>
    /\ curve.adapted_lo <= curve.basic_lo
    /\ curve.adapted_hi <= curve.basic_hi

====
